---- MODULE Spec2Model ----
(***************************************************************************)
(* Redress Analyzer (src/app/redress_analyzer_app.py).                     *)
(*                                                                         *)
(* The module models one run of the Streamlit script as a state machine    *)
(* (specification Spec) and the pure engine functions compute_distribution,*)
(* days_for_target_coverage and coverage_for_days applied to bounded       *)
(* delta_days series (specification SpecEngine).                           *)
(*                                                                         *)
(* Representation.                                                         *)
(*   - A timestamp is an integer number of hours; a calendar day d is the  *)
(*     hour 24*d, Timestamp.normalize() floors to a multiple of 24 and     *)
(*     Timedelta.days is the floor of the hour difference by 24.           *)
(*   - A spreadsheet cell that holds a date is [ok |-> TRUE, t |-> hours]; *)
(*     a cell pandas cannot parse (NaT / None) is [ok |-> FALSE, t |-> 0]. *)
(*   - A percentage rounded to 2 decimals is the integer number of         *)
(*     hundredths of a percent: 28.57 is 2857, 100.00 is 10000.            *)
(*   - A quantile is the integer number of hundredths of a day: 27.5 is    *)
(*     2750.  Quantiles and percentages are computed in exact rational     *)
(*     arithmetic; the float64 results of pandas agree with them whenever  *)
(*     no rounding tie occurs, which needs a population that is a multiple *)
(*     of 32 records (20000*cum/total an odd integer).                     *)
(***************************************************************************)
EXTENDS Integers, Sequences, FiniteSets, TLC

VARIABLES
    files,              \* list_excel_files(data_dir): the campaign files
    pc,                 \* position of the script run
    view_mode,          \* "All mailings" | "Single mailing"
    selected_file,      \* index into files of the selected mailing (0: none)
    idx,                \* position of the all-mailings load loop
    prepared_list,      \* the prepared campaigns
    warnings,           \* diagnostics emitted: <<kind, campaign>>
    df,                 \* df_all (all view) or prepared["df"] (single view)
    selected_reason,    \* reason filter
    exclude_negative,   \* "Exclude negative deltas"
    weighting_mode,     \* "By records" | "Average of campaigns"
    df_filtered,        \* the filtered records
    delta_series,       \* df_filtered["delta_days"]
    dist_df,            \* compute_distribution(delta_series)
    desc,               \* delta_series.describe(percentiles=...)
    avg_campaign,       \* avg_campaign_median / _p95 / _p99
    target_pct,         \* target coverage slider
    needed_days,        \* days_for_target_coverage(dist_df, target_pct)
    max_days,           \* upper end of the wait-time slider
    wait_days,          \* wait-time slider
    coverage,           \* coverage_for_days(dist_df, wait_days)
    summary             \* median_days, p95_days, p99_days of the summary text

vars == <<files, pc, view_mode, selected_file, idx, prepared_list, warnings, df,
          selected_reason, exclude_negative, weighting_mode, df_filtered,
          delta_series, dist_df, desc, avg_campaign, target_pct, needed_days,
          max_days, wait_days, coverage, summary>>

-----------------------------------------------------------------------------
(* Bounds of the model *)

\* number of campaign files in the data directory
MaxFiles == 2

\* length of the delta_days series handed to the engine functions
MaxLen == 4

\* largest delta_days value of those series (the smallest is -1)
MaxDelta == 2

-----------------------------------------------------------------------------
(* Numeric helpers *)

None == [ok |-> FALSE, t |-> 0]

Stamp(h) == [ok |-> TRUE, t |-> h]

Abs(x) == IF x < 0 THEN -x ELSE x

RECURSIVE SumSeq(_)
SumSeq(s) == IF s = <<>> THEN 0 ELSE s[1] + SumSeq(Tail(s))

\* numpy rint(num/den): nearest integer, ties to even (den > 0)
RoundHalfEven(num, den) ==
    LET q == num \div den
        r == num % den
    IN  IF 2 * r < den THEN q
        ELSE IF 2 * r > den THEN q + 1
        ELSE IF q % 2 = 0 THEN q ELSE q + 1

\* round(part / total * 100, 2), in hundredths of a percent
RoundPct(part, total) == RoundHalfEven(part * 10000, total)

\* int(x) of a value given in hundredths: truncation toward zero
IntTrunc(x100) == IF x100 >= 0 THEN x100 \div 100 ELSE -((-x100) \div 100)

\* the values of a set of integers in ascending order
SortAscending(S) ==
    [i \in 1..Cardinality(S) |->
        CHOOSE k \in S : Cardinality({x \in S : x < k}) = i - 1]

Range(s) == {s[i] : i \in DOMAIN s}

SetMax(S) == CHOOSE m \in S : \A x \in S : x <= m

SetMin(S) == CHOOSE m \in S : \A x \in S : m <= x

-----------------------------------------------------------------------------
(* Distribution Builder and Coverage Query Engine *)

\* Series.value_counts(): distinct value -> number of occurrences
value_counts(s) ==
    [k \in Range(s) |-> Cardinality({i \in DOMAIN s : s[i] = k})]

\* Series.cumsum()
cumsum(c) ==
    LET run[i \in 0..Len(c)] == IF i = 0 THEN 0 ELSE run[i - 1] + c[i]
    IN  [i \in 1..Len(c) |-> run[i]]

\* compute_distribution with the percentage taken from the per-key counts
\* (dist / total) instead of the cumulative counts
compute_distribution_pct_of_count(s) ==
    LET vc    == value_counts(s)
        index == SortAscending(DOMAIN vc)
        dist  == [i \in 1..Len(index) |-> vc[index[i]]]
        cum   == cumsum(dist)
        total == SumSeq(dist)
    IN  [i \in 1..Len(index) |->
            [days   |-> index[i],
             count  |-> dist[i],
             cum    |-> cum[i],
             cumpct |-> RoundPct(dist[i], total)]]

compute_distribution(s) ==
    LET vc    == value_counts(s)
        index == SortAscending(DOMAIN vc)
        dist  == [i \in 1..Len(index) |-> vc[index[i]]]
        cum   == cumsum(dist)
        total == SumSeq(dist)
    IN  [i \in 1..Len(index) |->
            [days   |-> index[i],
             count  |-> dist[i],
             cum    |-> cum[i],
             cumpct |-> RoundPct(cum[i], total)]]

\* days_for_target_coverage with a strict comparison (> target_pct)
days_for_target_coverage_strict(dist, target100) ==
    IF dist = <<>> THEN 0
    ELSE LET mask == {i \in DOMAIN dist : dist[i].cumpct > target100}
         IN  IF mask = {} THEN SetMax({dist[i].days : i \in DOMAIN dist})
             ELSE dist[SetMin(mask)].days

\* target100 is the target percentage in hundredths of a percent
days_for_target_coverage(dist, target100) ==
    IF dist = <<>> THEN 0
    ELSE LET mask == {i \in DOMAIN dist : dist[i].cumpct >= target100}
         IN  IF mask = {} THEN SetMax({dist[i].days : i \in DOMAIN dist})
             ELSE dist[SetMin(mask)].days

\* coverage_for_days with a strict comparison (key < days)
coverage_for_days_strict(dist, days) ==
    IF dist = <<>> THEN 0
    ELSE LET mask == {i \in DOMAIN dist : dist[i].days < days}
         IN  IF mask = {} THEN 0
             ELSE LET covered == SumSeq([i \in 1..Cardinality(mask) |->
                                            dist[SortAscending(mask)[i]].count])
                      total   == SumSeq([i \in DOMAIN dist |-> dist[i].count])
                  IN  RoundPct(covered, total)

\* coverage_for_days dividing by the number of rows of the table (len(dist_df))
\* instead of the number of records
coverage_for_days_per_row(dist, days) ==
    IF dist = <<>> THEN 0
    ELSE LET mask == {i \in DOMAIN dist : dist[i].days <= days}
         IN  IF mask = {} THEN 0
             ELSE LET covered == SumSeq([i \in 1..Cardinality(mask) |->
                                            dist[SortAscending(mask)[i]].count])
                  IN  RoundPct(covered, Len(dist))

coverage_for_days(dist, days) ==
    IF dist = <<>> THEN 0
    ELSE LET mask == {i \in DOMAIN dist : dist[i].days <= days}
         IN  IF mask = {} THEN 0
             ELSE LET covered == SumSeq([i \in 1..Cardinality(mask) |->
                                            dist[SortAscending(mask)[i]].count])
                      total   == SumSeq([i \in DOMAIN dist |-> dist[i].count])
                  IN  RoundPct(covered, total)

-----------------------------------------------------------------------------
(* The engine functions applied to bounded delta_days series *)

\* the scenario series of the specification's testable properties
ExampleDeltas == <<0, 0, 1, 2, 2, 2, 5>>

DeltaValues == (-1)..MaxDelta

DeltaSeqs == UNION {[1..n -> DeltaValues] : n \in 0..MaxLen} \cup {ExampleDeltas}

NoDesc == [p50 |-> 0, p90 |-> 0, p95 |-> 0, p99 |-> 0, min |-> 0, max |-> 0]

NoAvg == [median |-> 0, p95 |-> 0, p99 |-> 0]

NoSummary == [median_days |-> 0, p95_days |-> 0, p99_days |-> 0]

\* the values of the variables a run has not assigned yet
Unassigned ==
    /\ view_mode = "" /\ selected_file = 0 /\ idx = 0
    /\ prepared_list = <<>> /\ warnings = {} /\ df = <<>>
    /\ selected_reason = "" /\ exclude_negative = TRUE /\ weighting_mode = ""
    /\ df_filtered = <<>> /\ dist_df = <<>>
    /\ desc = NoDesc /\ avg_campaign = NoAvg
    /\ target_pct = 0 /\ needed_days = 0 /\ max_days = 0
    /\ wait_days = 0 /\ coverage = 0 /\ summary = NoSummary

EngineInit ==
    /\ files = <<>>
    /\ pc = "series"
    /\ delta_series \in DeltaSeqs
    /\ Unassigned

EngineBuild ==
    /\ pc = "series"
    /\ dist_df' = compute_distribution(delta_series)
    /\ pc' = "built"
    /\ UNCHANGED <<files, view_mode, selected_file, idx, prepared_list, warnings,
                   df, selected_reason, exclude_negative, weighting_mode,
                   df_filtered, delta_series, desc, avg_campaign, target_pct,
                   needed_days, max_days, wait_days, coverage, summary>>

\* targets in hundredths of a percent: every whole percentage from 0 to 101
\* and the values next to each cumulative percentage of the table
EngineTargets(dist) ==
    {100 * t : t \in 0..101}
        \cup UNION {{dist[i].cumpct - 1, dist[i].cumpct, dist[i].cumpct + 1} :
                       i \in DOMAIN dist}

EngineTarget ==
    /\ pc = "built"
    /\ \E t \in EngineTargets(dist_df) :
          /\ target_pct' = t
          /\ needed_days' = days_for_target_coverage(dist_df, t)
    /\ pc' = "target"
    /\ UNCHANGED <<files, view_mode, selected_file, idx, prepared_list, warnings,
                   df, selected_reason, exclude_negative, weighting_mode,
                   df_filtered, delta_series, dist_df, desc, avg_campaign,
                   max_days, wait_days, coverage, summary>>

EngineCoverage ==
    /\ pc = "built"
    /\ \E d \in (-3)..(MaxDelta + 4) :
          /\ wait_days' = d
          /\ coverage' = coverage_for_days(dist_df, d)
    /\ pc' = "coverage"
    /\ UNCHANGED <<files, view_mode, selected_file, idx, prepared_list, warnings,
                   df, selected_reason, exclude_negative, weighting_mode,
                   df_filtered, delta_series, dist_df, desc, avg_campaign,
                   target_pct, needed_days, max_days, summary>>

EngineNext == EngineBuild \/ EngineTarget \/ EngineCoverage

SpecEngine == EngineInit /\ [][EngineNext]_vars

-----------------------------------------------------------------------------
(* Campaign files *)

reason_col == "GRUND_UNZUSTELLBARKEIT"

redress_col == "REDRESSENERFASSUNG_DATUM"

\* midnight of calendar day d, in hours
Day(d) == 24 * d

\* a data row of the sheet: the reason cell ("" is a blank cell) and the
\* redress date cell
Row(reason, redress) == [reason |-> reason, redress |-> redress]

\* Campaign files.  suffix is the <<year, month>> of the file name (<<>> when
\* the name has none), rank the place of the name in lexicographic order,
\* label and value the cells A1 and B1, columns the header of row 4.
Mailing1 ==
    [stem |-> "mailing_2024_03", suffix |-> <<2024, 3>>, rank |-> 3,
     label |-> "OFFICIAL_MAILING_DATE", value |-> Stamp(Day(10)),
     columns |-> {reason_col, redress_col},
     rows |-> << Row("A", Stamp(Day(7))), Row("A", Stamp(Day(10))),
                 Row("A", Stamp(Day(12))) >>]

Mailing2 ==
    [stem |-> "mailing_2024_01", suffix |-> <<2024, 1>>, rank |-> 1,
     label |-> "OFFICIAL_MAILING_DATE", value |-> Stamp(Day(20) + 9),
     columns |-> {reason_col, redress_col, "NAME"},
     rows |-> << Row("A", Stamp(Day(21) + 15)), Row("B", None),
                 Row("", Stamp(Day(19) + 12)), Row("B", Stamp(Day(20))),
                 Row("A", Stamp(Day(24))) >>]

\* cell A1 does not hold the label: the official date is not resolved
MailingNoDate ==
    [stem |-> "mailing_2024_04", suffix |-> <<2024, 4>>, rank |-> 4,
     label |-> "Mailing date", value |-> Stamp(Day(30)),
     columns |-> {reason_col, redress_col},
     rows |-> << Row("A", Stamp(Day(31))), Row("B", Stamp(Day(33))) >>]

\* the redress date column is missing
MailingNoColumn ==
    [stem |-> "mailing_2024_02", suffix |-> <<2024, 2>>, rank |-> 2,
     label |-> "OFFICIAL_MAILING_DATE", value |-> Stamp(Day(15)),
     columns |-> {reason_col, "NAME"},
     rows |-> << Row("A", None) >>]

\* every redress date cell is unparseable; the file name has no date suffix
MailingNoDates ==
    [stem |-> "old_mailing", suffix |-> <<>>, rank |-> 6,
     label |-> "OFFICIAL_MAILING_DATE", value |-> Stamp(Day(5)),
     columns |-> {reason_col, redress_col},
     rows |-> << Row("A", None), Row("B", None) >>]

\* the table has a header and no rows; the month of the suffix is invalid
MailingNoRows ==
    [stem |-> "mailing_2024_13", suffix |-> <<2024, 13>>, rank |-> 5,
     label |-> "OFFICIAL_MAILING_DATE", value |-> Stamp(Day(8)),
     columns |-> {reason_col, redress_col},
     rows |-> << >>]

FilePool == {Mailing1, Mailing2, MailingNoDate, MailingNoColumn,
             MailingNoDates, MailingNoRows}

\* the campaigns of the weighting scenario: 10 records at delta 5 and 1000
\* records at delta 50
CampaignA ==
    [stem |-> "campaign_2023_02", suffix |-> <<2023, 2>>, rank |-> 2,
     label |-> "OFFICIAL_MAILING_DATE", value |-> Stamp(Day(40)),
     columns |-> {reason_col, redress_col},
     rows |-> [i \in 1..10 |-> Row("A", Stamp(Day(45)))]]

CampaignB ==
    [stem |-> "campaign_2023_01", suffix |-> <<2023, 1>>, rank |-> 1,
     label |-> "OFFICIAL_MAILING_DATE", value |-> Stamp(Day(10)),
     columns |-> {reason_col, redress_col},
     rows |-> [i \in 1..1000 |-> Row("A", Stamp(Day(60)))]]

\* the data directories: up to MaxFiles files of the pool, or the two
\* campaigns of the weighting scenario
Directories ==
    {d \in SUBSET FilePool : Cardinality(d) <= MaxFiles} \cup {{CampaignA, CampaignB}}

-----------------------------------------------------------------------------
(* Helpers of the script *)

\* the months since year 0 of the Timestamp(year, month, 1) of the suffix
parse_date_from_filename(f) ==
    IF f.suffix = <<>> THEN None
    ELSE IF f.suffix[2] \notin 1..12 THEN None
    ELSE Stamp(f.suffix[1] * 12 + f.suffix[2])

\* sorted(S, key=...): the elements of set S as a sequence in ascending order
\* of key, a function on S with distinct values
OrderBy(S, key) ==
    [i \in 1..Cardinality(S) |->
        CHOOSE f \in S : Cardinality({g \in S : key[g] < key[f]}) = i - 1]

list_excel_files(dir) ==
    LET files_with_date    == {f \in dir : parse_date_from_filename(f).ok}
        files_without_date == dir \ files_with_date
        neg_date           == [f \in files_with_date |-> -parse_date_from_filename(f).t]
        path               == [f \in files_without_date |-> f.rank]
    IN  OrderBy(files_with_date, neg_date) \o OrderBy(files_without_date, path)

\* Timestamp.normalize()
normalize(t) == (t \div 24) * 24

read_official_mailing_date(f) ==
    IF f.label # "OFFICIAL_MAILING_DATE" THEN None
    ELSE IF ~f.value.ok THEN None
    ELSE Stamp(normalize(f.value.t))

\* the st.warning of read_official_mailing_date
metadata_warnings(f) ==
    IF f.label # "OFFICIAL_MAILING_DATE"
    THEN {[kind |-> "Cell A1 does not contain 'OFFICIAL_MAILING_DATE'",
           file |-> f.stem, missing |-> {}]}
    ELSE IF ~f.value.ok
    THEN {[kind |-> "Could not parse OFFICIAL_MAILING_DATE from cell B1",
           file |-> f.stem, missing |-> {}]}
    ELSE {}

load_redress_data(f) == [columns |-> f.columns, rows |-> f.rows]

\* Series.astype(str) of the reason column: a blank cell (NaN) becomes "nan"
astype_str(reason) == IF reason = "" THEN "nan" ELSE reason

\* (redress_date - official_date).dt.days
timedelta_days(redress_date, official_date) == (redress_date - official_date) \div 24

NoPrepared ==
    [campaign |-> "", official_date |-> 0, before_count |-> 0, after_count |-> 0,
     df |-> <<>>]

\* prepare_file_data: ok is FALSE when it returns None; warn are the warnings
\* it emits; manual_date is the value of the sidebar date input
prepare_file_data(f, prompt_manual, manual_date) ==
    LET read          == read_official_mailing_date(f)
        official_date == IF ~read.ok /\ prompt_manual THEN Stamp(manual_date) ELSE read
        table         == load_redress_data(f)
        required_cols == {reason_col, redress_col}
        missing       == required_cols \ table.columns
    IN  IF ~official_date.ok
        THEN [ok |-> FALSE, warn |-> metadata_warnings(f), prepared |-> NoPrepared]
        ELSE IF table.rows = <<>> \/ missing # {}
        THEN [ok |-> FALSE,
              warn |-> metadata_warnings(f) \cup
                         {[kind |-> "Missing required columns", file |-> f.stem,
                           missing |-> missing]},
              prepared |-> NoPrepared]
        ELSE LET parsed(r) == r.redress.ok        \* to_datetime(errors="coerce")
                 kept      == SelectSeq(table.rows, parsed)   \* dropna
                 frame     == [i \in 1..Len(kept) |->
                                 [reason       |-> astype_str(kept[i].reason),
                                  redress_date |-> kept[i].redress.t,
                                  delta_days   |-> timedelta_days(kept[i].redress.t,
                                                                  official_date.t),
                                  campaign     |-> f.stem,
                                  official_date |-> official_date.t]]
             IN  [ok |-> TRUE, warn |-> metadata_warnings(f),
                  prepared |-> [campaign      |-> f.stem,
                                official_date |-> official_date.t,
                                before_count  |-> Len(table.rows),
                                after_count   |-> Len(kept),
                                df            |-> frame]]

\* the k-th smallest value (k from 1) of series s
sorted_at(s, k) ==
    CHOOSE v \in Range(s) :
        /\ Cardinality({i \in DOMAIN s : s[i] < v}) < k
        /\ k <= Cardinality({i \in DOMAIN s : s[i] <= v})

\* Series.quantile(p / 100), linear interpolation, in hundredths
quantile(s, p) ==
    LET n    == Len(s)
        pos  == (n - 1) * p
        j    == pos \div 100
        frac == pos % 100
        a    == sorted_at(s, j + 1)
        b    == sorted_at(s, IF j + 2 <= n THEN j + 2 ELSE n)
    IN  100 * a + (b - a) * frac

\* Series.describe(percentiles=[0.5, 0.9, 0.95, 0.99])
describe(s) ==
    [p50 |-> quantile(s, 50), p90 |-> quantile(s, 90), p95 |-> quantile(s, 95),
     p99 |-> quantile(s, 99), min |-> SetMin(Range(s)), max |-> SetMax(Range(s))]

delta_days_of(frame) == [i \in DOMAIN frame |-> frame[i].delta_days]

\* summarize_by_campaign aggregating the whole frame in the row of every
\* campaign (the statistics are not taken per group)
summarize_by_campaign_pooled(frame) ==
    LET campaigns == {frame[i].campaign : i \in DOMAIN frame}
        group(c)  == LET of_c(r) == r.campaign = c IN SelectSeq(frame, of_c)
        row(c)    == LET s == delta_days_of(frame)
                     IN  [campaign |-> c, count |-> Len(s),
                          median |-> quantile(s, 50), p90 |-> quantile(s, 90),
                          p95 |-> quantile(s, 95), p99 |-> quantile(s, 99),
                          min |-> SetMin(Range(s)), max |-> SetMax(Range(s)),
                          official_date |-> group(c)[1].official_date]
        rows      == {row(c) : c \in campaigns}
        neg_date  == [r \in rows |-> -r.official_date]
    IN  OrderBy(rows, neg_date)

\* summarize_by_campaign: one row per campaign of the frame, ordered by
\* official date, latest first
summarize_by_campaign(frame) ==
    LET campaigns == {frame[i].campaign : i \in DOMAIN frame}
        group(c)  == LET of_c(r) == r.campaign = c IN SelectSeq(frame, of_c)
        row(c)    == LET s == delta_days_of(group(c))
                     IN  [campaign |-> c, count |-> Len(s),
                          median |-> quantile(s, 50), p90 |-> quantile(s, 90),
                          p95 |-> quantile(s, 95), p99 |-> quantile(s, 99),
                          min |-> SetMin(Range(s)), max |-> SetMax(Range(s)),
                          official_date |-> group(c)[1].official_date]
        rows      == {row(c) : c \in campaigns}
        neg_date  == [r \in rows |-> -r.official_date]
    IN  OrderBy(rows, neg_date)

\* round(Series.mean(), 2) of a column of medians given in hundredths.  A
\* median is a multiple of 0.5, so that a tie of the rounding needs a number
\* of campaigns that is a multiple of 4; for up to 19 campaigns float64 holds
\* such a mean exactly and the tie goes to the even hundredth.
round_mean(column) == RoundHalfEven(SumSeq(column), Len(column))

\* round(Series.mean(), 2) of a column of interpolated quantiles: the float64
\* mean of a tie may lie on either side of it, and is rounded to either
\* neighbour
round_mean_float(column) ==
    LET total == SumSeq(column)
        k     == Len(column)
    IN  IF 2 * (total % k) = k THEN {total \div k, total \div k + 1}
        ELSE {RoundHalfEven(total, k)}

RECURSIVE concat(_)
concat(frames) == IF frames = <<>> THEN <<>> ELSE frames[1] \o concat(Tail(frames))

\* apply_filters keeping only the positive deltas (delta_days > 0)
apply_filters_positive(frame, reason, exclude) ==
    LET by_reason(r) == r.reason = reason
        positive(r) == r.delta_days > 0
        step1 == IF reason # "(All reasons)" THEN SelectSeq(frame, by_reason) ELSE frame
    IN  IF exclude THEN SelectSeq(step1, positive) ELSE step1

\* the reason filter and the negative-delta exclusion of both views
apply_filters(frame, reason, exclude) ==
    LET by_reason(r) == r.reason = reason
        non_negative(r) == r.delta_days >= 0
        step1 == IF reason # "(All reasons)" THEN SelectSeq(frame, by_reason) ELSE frame
    IN  IF exclude THEN SelectSeq(step1, non_negative) ELSE step1

-----------------------------------------------------------------------------
(* The script run *)

\* target coverage slider of the all-mailings view
AllTargetMin == 50

AllTargetMax == 100

AllTargetDefault == 90

\* target coverage slider of the single-mailing view
SingleTargetMin == 80

SingleTargetMax == 100

SingleTargetDefault == 95

\* default of the wait-time slider of both views: min(WaitDefault, max_days)
WaitDefault == 10

\* the slider positions the model tries: both ends and the default
AllTargets == {AllTargetMin, AllTargetDefault, AllTargetMax}

SingleTargets == {SingleTargetMin, SingleTargetDefault, SingleTargetMax}

\* values of the sidebar date input for a mailing without official date
ManualDates == {Day(29), Day(32)}

Message(kind) == [kind |-> kind, file |-> "", missing |-> {}]

Init ==
    /\ \E dir \in Directories : files = list_excel_files(dir)
    /\ pc = "start"
    /\ delta_series = <<>>
    /\ Unassigned

\* lines 202-227: no file stops the run; otherwise the sidebar gives the view
\* and, in the single-mailing view, the selected mailing
ChooseView ==
    /\ pc = "start"
    /\ IF files = <<>>
       THEN /\ warnings' = warnings \cup {Message("No .xlsx files found")}
            /\ pc' = "stopped"
            /\ UNCHANGED <<view_mode, selected_file, idx>>
       ELSE \/ /\ view_mode' = "All mailings"
               /\ selected_file' = 0
               /\ idx' = 1
               /\ pc' = "all_load"
               /\ UNCHANGED warnings
            \/ /\ view_mode' = "Single mailing"
               /\ selected_file' \in 1..Len(files)
               /\ pc' = "single_load"
               /\ UNCHANGED <<idx, warnings>>
    /\ UNCHANGED <<files, prepared_list, df, selected_reason, exclude_negative,
                   weighting_mode, df_filtered, delta_series, dist_df, desc,
                   avg_campaign, target_pct, needed_days, max_days, wait_days,
                   coverage, summary>>

\* the load loop leaving at the first file that cannot be prepared
PrepareNext_break ==
    /\ pc = "all_load"
    /\ idx <= Len(files)
    /\ LET prepared == prepare_file_data(files[idx], FALSE, 0)
       IN  /\ prepared_list' = IF prepared.ok
                               THEN Append(prepared_list, prepared.prepared)
                               ELSE prepared_list
           /\ warnings' = warnings \cup prepared.warn
           /\ idx' = IF prepared.ok THEN idx + 1 ELSE Len(files) + 1
    /\ UNCHANGED <<files, pc, view_mode, selected_file, df, selected_reason,
                   exclude_negative, weighting_mode, df_filtered, delta_series,
                   dist_df, desc, avg_campaign, target_pct, needed_days, max_days,
                   wait_days, coverage, summary>>

\* lines 237-240: one iteration of the load loop
PrepareNext ==
    /\ pc = "all_load"
    /\ idx <= Len(files)
    /\ LET prepared == prepare_file_data(files[idx], FALSE, 0)
       IN  /\ prepared_list' = IF prepared.ok
                               THEN Append(prepared_list, prepared.prepared)
                               ELSE prepared_list
           /\ warnings' = warnings \cup prepared.warn
    /\ idx' = idx + 1
    /\ UNCHANGED <<files, pc, view_mode, selected_file, df, selected_reason,
                   exclude_negative, weighting_mode, df_filtered, delta_series,
                   dist_df, desc, avg_campaign, target_pct, needed_days, max_days,
                   wait_days, coverage, summary>>

\* lines 242-246: after the loop
LoadDone ==
    /\ pc = "all_load"
    /\ idx > Len(files)
    /\ IF prepared_list = <<>>
       THEN /\ warnings' = warnings \cup {Message("No valid mailings could be loaded.")}
            /\ pc' = "stopped"
            /\ UNCHANGED df
       ELSE /\ df' = concat([i \in DOMAIN prepared_list |-> prepared_list[i].df])
            /\ pc' = "all_filters"
            /\ UNCHANGED warnings
    /\ UNCHANGED <<files, view_mode, selected_file, idx, prepared_list,
                   selected_reason, exclude_negative, weighting_mode, df_filtered,
                   delta_series, dist_df, desc, avg_campaign, target_pct,
                   needed_days, max_days, wait_days, coverage, summary>>

\* the options of the reason selectbox
reason_options(frame) == {"(All reasons)"} \cup {frame[i].reason : i \in DOMAIN frame}

\* lines 248-313: sidebar filters, filtered records, distribution, aggregate
\* statistics and the per-campaign averages
AllFilter ==
    /\ pc = "all_filters"
    /\ \E reason \in reason_options(df), exclude \in BOOLEAN,
          weighting \in {"By records", "Average of campaigns"} :
          LET filtered == apply_filters(df, reason, exclude)
              series   == delta_days_of(filtered)
              campaign_summary == summarize_by_campaign(filtered)
              column(name) == [i \in DOMAIN campaign_summary |-> campaign_summary[i][name]]
          IN  /\ selected_reason' = reason
              /\ exclude_negative' = exclude
              /\ weighting_mode' = weighting
              /\ df_filtered' = filtered
              /\ IF filtered = <<>>
                 THEN /\ warnings' = warnings \cup
                                       {Message("No data remains after applying filters.")}
                      /\ pc' = "stopped"
                      /\ UNCHANGED <<delta_series, dist_df, desc, avg_campaign>>
                 ELSE /\ delta_series' = series
                      /\ dist_df' = compute_distribution(series)
                      /\ desc' = describe(series)
                      /\ \E avg_p95 \in round_mean_float(column("p95")),
                            avg_p99 \in round_mean_float(column("p99")) :
                            avg_campaign' = [median |-> round_mean(column("median")),
                                             p95    |-> avg_p95,
                                             p99    |-> avg_p99]
                      /\ pc' = "all_target"
                      /\ UNCHANGED warnings
    /\ UNCHANGED <<files, view_mode, selected_file, idx, prepared_list, df,
                   target_pct, needed_days, max_days, wait_days, coverage, summary>>

\* lines 365-377; target_pct is kept in hundredths of a percent
AllTarget ==
    /\ pc = "all_target"
    /\ \E t \in AllTargets :
          /\ target_pct' = 100 * t
          /\ needed_days' = days_for_target_coverage(dist_df, 100 * t)
    /\ pc' = "all_wait"
    /\ UNCHANGED <<files, view_mode, selected_file, idx, prepared_list, warnings,
                   df, selected_reason, exclude_negative, weighting_mode,
                   df_filtered, delta_series, dist_df, desc, avg_campaign,
                   max_days, wait_days, coverage, summary>>

\* lines 381-394: st.slider raises when max_value is below min_value
AllWait ==
    /\ pc = "all_wait"
    /\ LET max_key == SetMax({dist_df[i].days : i \in DOMAIN dist_df})
       IN  /\ max_days' = max_key
           /\ IF max_key < 0
              THEN /\ pc' = "crashed"
                   /\ UNCHANGED <<wait_days, coverage>>
              ELSE /\ \E w \in 0..max_key :
                         /\ wait_days' = w
                         /\ coverage' = coverage_for_days(dist_df, w)
                   /\ pc' = "done"
    /\ UNCHANGED <<files, view_mode, selected_file, idx, prepared_list, warnings,
                   df, selected_reason, exclude_negative, weighting_mode,
                   df_filtered, delta_series, dist_df, desc, avg_campaign,
                   target_pct, needed_days, summary>>

\* lines 403-410: the selected mailing, with the manual date of the sidebar
\* when the file gives no official date
SinglePrepare ==
    /\ pc = "single_load"
    /\ \E manual_date \in ManualDates :
          LET prepared == prepare_file_data(files[selected_file], TRUE, manual_date)
          IN  /\ warnings' = warnings \cup prepared.warn \cup
                    (IF prepared.ok THEN {}
                     ELSE {Message("The selected mailing could not be loaded.")})
              /\ prepared_list' = IF prepared.ok THEN <<prepared.prepared>> ELSE <<>>
              /\ df' = prepared.prepared.df
              /\ pc' = IF prepared.ok THEN "single_filters" ELSE "stopped"
    /\ UNCHANGED <<files, view_mode, selected_file, idx, selected_reason,
                   exclude_negative, weighting_mode, df_filtered, delta_series,
                   dist_df, desc, avg_campaign, target_pct, needed_days, max_days,
                   wait_days, coverage, summary>>

\* lines 412-457
SingleFilter ==
    /\ pc = "single_filters"
    /\ \E reason \in reason_options(df), exclude \in BOOLEAN :
          LET filtered == apply_filters(df, reason, exclude)
              delta    == delta_days_of(filtered)
          IN  /\ selected_reason' = reason
              /\ exclude_negative' = exclude
              /\ df_filtered' = filtered
              /\ IF filtered = <<>>
                 THEN /\ warnings' = warnings \cup
                                       {Message("No data remains after applying filters.")}
                      /\ pc' = "stopped"
                      /\ UNCHANGED <<delta_series, dist_df, desc>>
                 ELSE /\ delta_series' = delta
                      /\ desc' = describe(delta)
                      /\ dist_df' = compute_distribution(delta)
                      /\ pc' = "single_target"
                      /\ UNCHANGED warnings
    /\ UNCHANGED <<files, view_mode, selected_file, idx, prepared_list, df,
                   weighting_mode, avg_campaign, target_pct, needed_days,
                   max_days, wait_days, coverage, summary>>

\* lines 512-523
SingleTarget ==
    /\ pc = "single_target"
    /\ \E t \in SingleTargets :
          /\ target_pct' = 100 * t
          /\ needed_days' = days_for_target_coverage(dist_df, 100 * t)
    /\ pc' = "single_wait"
    /\ UNCHANGED <<files, view_mode, selected_file, idx, prepared_list, warnings,
                   df, selected_reason, exclude_negative, weighting_mode,
                   df_filtered, delta_series, dist_df, desc, avg_campaign,
                   max_days, wait_days, coverage, summary>>

\* lines 527-539
SingleWait ==
    /\ pc = "single_wait"
    /\ LET max_key == SetMax({dist_df[i].days : i \in DOMAIN dist_df})
       IN  /\ max_days' = max_key
           /\ IF max_key < 0
              THEN /\ pc' = "crashed"
                   /\ UNCHANGED <<wait_days, coverage>>
              ELSE /\ \E w \in 0..max_key :
                         /\ wait_days' = w
                         /\ coverage' = coverage_for_days(dist_df, w)
                   /\ pc' = "single_summary"
    /\ UNCHANGED <<files, view_mode, selected_file, idx, prepared_list, warnings,
                   df, selected_reason, exclude_negative, weighting_mode,
                   df_filtered, delta_series, dist_df, desc, avg_campaign,
                   target_pct, needed_days, summary>>

\* lines 544-566: the summary for internal communication
SingleSummary ==
    /\ pc = "single_summary"
    /\ summary' = [median_days |-> IntTrunc(desc.p50),
                   p95_days    |-> IntTrunc(desc.p95),
                   p99_days    |-> IntTrunc(desc.p99)]
    /\ pc' = "done"
    /\ UNCHANGED <<files, view_mode, selected_file, idx, prepared_list, warnings,
                   df, selected_reason, exclude_negative, weighting_mode,
                   df_filtered, delta_series, dist_df, desc, avg_campaign,
                   target_pct, needed_days, max_days, wait_days, coverage>>

Next ==
    \/ ChooseView
    \/ PrepareNext
    \/ LoadDone
    \/ AllFilter
    \/ AllTarget
    \/ AllWait
    \/ SinglePrepare
    \/ SingleFilter
    \/ SingleTarget
    \/ SingleWait
    \/ SingleSummary

Spec == Init /\ [][Next]_vars

-----------------------------------------------------------------------------
(* Properties of the engine functions (specification SpecEngine) *)

\* number of records of series s at value k, and at values <= k
CountAt(s, k) == Cardinality({i \in DOMAIN s : s[i] = k})

CountUpTo(s, k) == Cardinality({i \in DOMAIN s : s[i] <= k})

\* C1: for a non-empty series the table has one row per distinct delta value,
\* rows strictly ascending by key, Count the number of records at the key,
\* Cumulative count the number of records at keys <= the key, Cumulative (%)
\* non-decreasing and 100.00 in the last row; deltas [0,0,1,2,2,2,5] give
\* (0,2,2,28.57), (1,1,3,42.86), (2,3,6,85.71), (5,1,7,100.00).
C1_DistributionTable ==
    (pc # "series" /\ delta_series # <<>>) =>
        /\ Len(dist_df) = Cardinality(Range(delta_series))
        /\ {dist_df[i].days : i \in DOMAIN dist_df} = Range(delta_series)
        /\ \A i, j \in DOMAIN dist_df : i < j => dist_df[i].days < dist_df[j].days
        /\ \A i \in DOMAIN dist_df :
              /\ dist_df[i].count = CountAt(delta_series, dist_df[i].days)
              /\ dist_df[i].cum = CountUpTo(delta_series, dist_df[i].days)
        /\ \A i, j \in DOMAIN dist_df : i < j => dist_df[i].cumpct <= dist_df[j].cumpct
        /\ dist_df[Len(dist_df)].cumpct = 10000
        /\ (delta_series = ExampleDeltas =>
              dist_df = << [days |-> 0, count |-> 2, cum |-> 2, cumpct |-> 2857],
                           [days |-> 1, count |-> 1, cum |-> 3, cumpct |-> 4286],
                           [days |-> 2, count |-> 3, cum |-> 6, cumpct |-> 8571],
                           [days |-> 5, count |-> 1, cum |-> 7, cumpct |-> 10000] >>)

\* a table of several rows with repeated values has been built
C1_Witness ==
    /\ pc = "built"
    /\ Len(dist_df) = 3
    /\ Len(delta_series) = 4
    /\ dist_df[1].days < 0

\* the 2-decimal cumulative coverage of key k in series s
CoverageOf(s, k) == RoundPct(CountUpTo(s, k), Len(s))

\* C2: days_for_target_coverage returns the smallest key whose rounded
\* cumulative coverage is >= the target, the maximum key when no key
\* reaches the target, and 0 for an empty table.
C2_DaysForTarget ==
    pc = "target" =>
        IF delta_series = <<>> THEN needed_days = 0
        ELSE IF \E k \in Range(delta_series) : CoverageOf(delta_series, k) >= target_pct
        THEN /\ needed_days \in Range(delta_series)
             /\ CoverageOf(delta_series, needed_days) >= target_pct
             /\ \A k \in Range(delta_series) :
                   CoverageOf(delta_series, k) >= target_pct => needed_days <= k
        ELSE \A k \in Range(delta_series) : k <= needed_days
                /\ needed_days \in Range(delta_series)

\* the target is met exactly by a key that is neither the first nor the last
C2_Witness ==
    /\ pc = "target"
    /\ Len(dist_df) = 3
    /\ needed_days = dist_df[2].days
    /\ dist_df[2].cumpct = target_pct

\* C3: coverage_for_days returns the records at keys <= days over all
\* records, as a percentage rounded to 2 decimals; 0.0 when days is below
\* every key and 0.0 for an empty table.
C3_CoverageForDays ==
    pc = "coverage" =>
        IF delta_series = <<>> THEN coverage = 0
        ELSE IF \A k \in Range(delta_series) : wait_days < k THEN coverage = 0
        ELSE coverage = RoundPct(CountUpTo(delta_series, wait_days), Len(delta_series))

\* a waiting time between two keys covers part of the records
C3_Witness ==
    /\ pc = "coverage"
    /\ Len(delta_series) = 3
    /\ wait_days \notin Range(delta_series)
    /\ coverage = 6667

\* coverage at row i of the table, 0 before the first row
CoverageAtRow(i) ==
    IF i = 0 THEN 0 ELSE coverage_for_days(dist_df, dist_df[i].days)

\* C4 as stated: the coverage differences, scaled by total/100, reproduce
\* exactly the Count of every key.
C4_RoundTripExact ==
    pc = "built" =>
        \A i \in DOMAIN dist_df :
            (CoverageAtRow(i) - CoverageAtRow(i - 1)) * Len(delta_series)
                = 10000 * CountAt(delta_series, dist_df[i].days)

\* C4 amended: the coverage differences, scaled by total/100, reproduce the
\* Count of every key up to the rounding of the coverages: the difference
\* is at most total/10000 of a record, so that rounding to the nearest
\* integer gives the original Count.
C4_RoundTripRounded ==
    pc = "built" =>
        \A i \in DOMAIN dist_df :
            LET scaled == (CoverageAtRow(i) - CoverageAtRow(i - 1)) * Len(delta_series)
                count  == CountAt(delta_series, dist_df[i].days)
            IN  /\ Abs(scaled - 10000 * count) <= Len(delta_series)
                /\ RoundHalfEven(scaled, 10000) = count
                /\ count = dist_df[i].count

\* a table of three keys over three records: the coverages 33.33, 66.67, 100
C4_Witness ==
    /\ pc = "built"
    /\ Len(dist_df) = 3
    /\ Len(delta_series) = 3
    /\ CoverageAtRow(1) = 3333

-----------------------------------------------------------------------------
(* Properties of the script run (specification Spec) *)

\* the distribution of the filtered records has been computed
Computed ==
    pc \in {"all_target", "all_wait", "single_target", "single_wait",
            "single_summary", "done", "crashed"}

\* the exclusion applied to a distribution table: the rows of negative keys
\* are removed when the flag is set
ExcludeFromTable(table) ==
    LET non_negative(r) == r.days >= 0
    IN  IF exclude_negative THEN SelectSeq(table, non_negative) ELSE table

\* the table built from the records under the reason filter alone
BuiltUnfiltered ==
    compute_distribution(delta_days_of(apply_filters(df, selected_reason, FALSE)))

KeyAndCount(table) ==
    [i \in DOMAIN table |-> [days |-> table[i].days, count |-> table[i].count]]

\* C5 as stated: filter-then-build equals build-then-filter in every column.
C5_FilterBuildCommute ==
    Computed => dist_df = ExcludeFromTable(BuiltUnfiltered)

\* C5 amended: filter-then-build equals build-then-filter in the key and count
\* columns, and in every column when the exclusion removes no record.
C5_FilterBuildKeyCount ==
    Computed =>
        /\ KeyAndCount(dist_df) = KeyAndCount(ExcludeFromTable(BuiltUnfiltered))
        /\ (\A i \in DOMAIN BuiltUnfiltered : exclude_negative => BuiltUnfiltered[i].days >= 0)
              => dist_df = ExcludeFromTable(BuiltUnfiltered)

\* the exclusion has removed records and records at day 0 remain
C5_Witness ==
    /\ Computed
    /\ exclude_negative
    /\ Len(df_filtered) < Len(apply_filters(df, selected_reason, FALSE))
    /\ dist_df[1].days = 0
    /\ Len(dist_df) >= 2

\* the wait-time query at 0 days over the record set [-3, 0, 2]
NegativeScenario ==
    /\ pc \in {"done", "single_summary"}
    /\ delta_days_of(df) = <<-3, 0, 2>>
    /\ selected_reason = "(All reasons)"
    /\ wait_days = 0

\* C6 as stated: the populations are [0, 2] and [-3, 0, 2] and the two
\* coverages at 0 days are 66.67% and 33.33%.
C6_ExclusionAsStated ==
    NegativeScenario =>
        /\ exclude_negative => delta_series = <<0, 2>>
        /\ ~exclude_negative => delta_series = <<-3, 0, 2>>
        /\ coverage \in {6667, 3333}

\* C6 amended: the populations are [0, 2] and [-3, 0, 2] and the coverages at
\* 0 days are 50.00% with the exclusion and 66.67% without it.
C6_Exclusion ==
    NegativeScenario =>
        /\ exclude_negative => (delta_series = <<0, 2>> /\ coverage = 5000)
        /\ ~exclude_negative => (delta_series = <<-3, 0, 2>> /\ coverage = 6667)

\* the query at 0 days with the exclusion on
C6_Witness ==
    /\ NegativeScenario
    /\ exclude_negative
    /\ coverage = 5000

\* the delta_days of the filtered records of campaign c
CampaignDeltas(c) ==
    LET of_c(r) == r.campaign = c
    IN  delta_days_of(SelectSeq(df_filtered, of_c))

FilteredCampaigns == {df_filtered[i].campaign : i \in DOMAIN df_filtered}

\* avg is the mean over the campaigns of their p% quantiles, to the nearest
\* hundredth
IsCampaignMean(avg, p) ==
    LET q(c) == quantile(CampaignDeltas(c), p)
        k    == Cardinality(FilteredCampaigns)
        sum[T \in SUBSET FilteredCampaigns] ==
            IF T = {} THEN 0
            ELSE LET c == CHOOSE x \in T : TRUE IN q(c) + sum[T \ {c}]
    IN  2 * Abs(avg * k - sum[FilteredCampaigns]) <= k

WeightingScenario ==
    /\ Len(files) = 2
    /\ files[1] = CampaignA
    /\ files[2] = CampaignB
    /\ selected_reason = "(All reasons)"

\* C7: with 10 records at delta 5 and 1000 records at delta 50 the pooled
\* median is 50 and the average of the campaign medians is 27.5; the
\* averaged median, p95 and p99 are the unweighted means of the campaigns'
\* own quantiles, whatever the campaigns' record counts.
C7_Weighting ==
    (Computed /\ view_mode = "All mailings") =>
        /\ WeightingScenario =>
              /\ IntTrunc(desc.p50) = 50
              /\ avg_campaign.median = 2750
        /\ IsCampaignMean(avg_campaign.median, 50)
        /\ IsCampaignMean(avg_campaign.p95, 95)
        /\ IsCampaignMean(avg_campaign.p99, 99)

\* the two campaigns of the scenario have been pooled and summarised
C7_Witness ==
    /\ pc = "all_target"
    /\ WeightingScenario
    /\ Len(df_filtered) = 1010
    /\ Cardinality(FilteredCampaigns) = 2

\* the file has an official date and the required columns, and no row with a
\* parseable redress date
NoParseableDate(f) ==
    /\ read_official_mailing_date(f).ok
    /\ {reason_col, redress_col} \subseteq f.columns
    /\ \A i \in DOMAIN f.rows : ~f.rows[i].redress.ok

\* the files for which prepare_file_data has returned
Processed ==
    IF view_mode = "All mailings" THEN {files[i] : i \in 1..(idx - 1)}
    ELSE IF view_mode = "Single mailing" /\ pc # "single_load" THEN {files[selected_file]}
    ELSE {}

PreparedCampaigns == {prepared_list[i].campaign : i \in DOMAIN prepared_list}

\* C8: a campaign with the required columns and no parseable redress date is
\* rejected, with a diagnostic that is not the missing-columns diagnostic.
C8_NoDatesRejected ==
    \A f \in Processed :
        NoParseableDate(f) =>
            /\ f.stem \notin PreparedCampaigns
            /\ \E w \in warnings : w.file = f.stem /\ w.kind # "Missing required columns"
            /\ \A w \in warnings : w.file = f.stem => w.kind # "Missing required columns"

\* the file can be loaded: official date in the sheet, required columns, rows
Valid(f) ==
    /\ f.label = "OFFICIAL_MAILING_DATE"
    /\ f.value.ok
    /\ {reason_col, redress_col} \subseteq f.columns
    /\ f.rows # <<>>

ParseableRows(f) == Cardinality({i \in DOMAIN f.rows : f.rows[i].redress.ok})

RecordsOf(frame, f) == Cardinality({i \in DOMAIN frame : frame[i].campaign = f.stem})

\* C9: in the all-mailings view a campaign without official date or without
\* the required columns is skipped and no delta is computed for it, every
\* valid campaign is loaded and pooled wherever it stands in the list, and
\* the batch stops only when no campaign is valid.
C9_FailureIsolation ==
    view_mode = "All mailings" =>
        /\ \A f \in Processed : Valid(f) <=> f.stem \in PreparedCampaigns
        /\ \A i \in DOMAIN prepared_list :
              \E j \in 1..(idx - 1) :
                 /\ files[j].stem = prepared_list[i].campaign
                 /\ Len(prepared_list[i].df) = ParseableRows(files[j])
                 /\ Cardinality({k \in 1..j : Valid(files[k])}) = i
        /\ pc \notin {"all_load", "stopped"} =>
              \A j \in DOMAIN files :
                 RecordsOf(df, files[j]) =
                    IF Valid(files[j]) THEN ParseableRows(files[j]) ELSE 0
        /\ Message("No valid mailings could be loaded.") \in warnings
              <=> (pc = "stopped" /\ idx > Len(files) /\ \A j \in DOMAIN files : ~Valid(files[j]))
        /\ (pc = "all_load" /\ idx > Len(files) /\ \E j \in DOMAIN files : Valid(files[j]))
              => ENABLED LoadDone

\* a valid campaign that follows a failing one has been pooled
C9_Witness ==
    /\ view_mode = "All mailings"
    /\ pc = "all_filters"
    /\ Len(files) >= 2
    /\ ~Valid(files[1])
    /\ Valid(files[2])
    /\ RecordsOf(df, files[2]) > 0

\* C10: the summary of the single-mailing view is true of the distribution:
\* the coverage at median_days, p95_days and p99_days is at least 50%, 95%
\* and 99%.
C10_SummaryCoverage ==
    (pc = "done" /\ view_mode = "Single mailing") =>
        /\ coverage_for_days(dist_df, summary.median_days) >= 5000
        /\ coverage_for_days(dist_df, summary.p95_days) >= 9500
        /\ coverage_for_days(dist_df, summary.p99_days) >= 9900

\* the wait-time query is offered: the run has passed the empty-population
\* check and the target query and stands at the wait-time slider, or has
\* evaluated it
WaitQueryOffered ==
    pc \in {"all_wait", "single_wait", "single_summary", "done", "crashed"}

\* the upper end of the wait-time slider: int(dist_df["Days until redress"].max())
ObservedMaxDays == SetMax({dist_df[i].days : i \in DOMAIN dist_df})

\* C11: wherever the wait-time query is offered the observed maximum delta
\* is >= 0, so that the range [0, max_days] is non-empty and holds its
\* default min(10, max_days); the slider is never refused.
C11_WaitRangeWellFormed ==
    WaitQueryOffered =>
        LET default == IF WaitDefault < ObservedMaxDays THEN WaitDefault
                       ELSE ObservedMaxDays
        IN  /\ ObservedMaxDays >= 0
            /\ 0..ObservedMaxDays # {}
            /\ default \in 0..ObservedMaxDays
            /\ pc # "crashed"
            /\ pc \in {"single_summary", "done"} =>
                  (max_days = ObservedMaxDays /\ wait_days \in 0..max_days)

====
